---- MODULE Spec2Model ----
(***************************************************************************)
(* Raw image viewer (src/main.cpp): the bit reader, the pixel endianness   *)
(* adjustment, the 8-bit scaler, the preset field decomposition and the    *)
(* viewport renderer, driven by the viewer's controls.                     *)
(*                                                                         *)
(* Machine words (uint32_t, uint64_t, size_t) are modelled as the set of   *)
(* the positions of their 1 bits, bit 0 being the least significant one:   *)
(* a shift moves the positions, | is union, & with a mask is a filter and  *)
(* a conversion to a narrower type drops the positions it cannot hold.     *)
(***************************************************************************)
EXTENDS Integers, Sequences, FiniteSets, TLC

\* ------------------------------------------------------------------ bounds
\* longest file of the ordinary file set, in bytes
MaxLen == 4
\* length of the one long file (enough bits for a pixel wider than 64 bits)
LongLen == 9
\* largest number of rows the image area asks for
MaxRows == 2
\* largest row width typed into the width box
MaxWidth == 2
\* largest start offset typed into the offset box
MaxStofs == 1
\* widest read asked of the bit readers when they are called on their own
MaxNBits == 34
\* widest field given to scale_to_8 when it is called on its own
MaxScaleBits == 10
\* the length of the file long enough for the keys' end-of-data test (over 32 bytes)
NavLen == 34
\* the largest start offset the keys are followed to
MaxKeyStofs == 17
\* how far below 256 a wrapped bit alignment is followed
MaxAlignWrap == 2

\* --------------------------------------------------- undefined behaviour
\* What a build does where the C++ is undefined:
\*   shift : a shift by >= the width of the type either uses the count
\*           modulo the width ("wrap", x86-64 and AArch64 shift
\*           instructions) or gives 0 ("zero", the mathematical result);
\*   fault : an integer division by zero and a write past a local array
\*           either stop the process ("trap") or go unnoticed ("silent",
\*           the quotient being 0 as on AArch64).
UBModes == [shift : {"wrap", "zero"}, fault : {"trap", "silent"}]

\* ------------------------------------------------------------------ words
Pow2(n) == 2 ^ n

\* v << n in a type of w bits
Shl(v, n, w) == {i + n : i \in v} \cap (0 .. (w - 1))

\* v >> n
Shr(v, n) == {i - n : i \in {j \in v : j >= n}}

\* v & ((1 << n) - 1)
LowBits(v, n) == {i \in v : i < n}

\* conversion of a 64-bit value to uint32_t
U32(v) == LowBits(v, 32)

\* a value of a 64-bit type. Every accumulator of the loops below is one, and
\* each loop tests it on every pass, so that the accumulator is computed
\* pass by pass as in the code.
IsWord(v) == v \subseteq 0 .. 63

\* the number a word stands for (words below 2^31 only)
RECURSIVE NatOf(_)
NatOf(v) ==
    IF v = {} THEN 0
    ELSE LET m == CHOOSE x \in v : TRUE IN Pow2(m) + NatOf(v \ {m})

\* the word of a number below 2^31
WordOf(n) == {i \in 0 .. 30 : (n \div Pow2(i)) % 2 = 1}

\* v >> n on uint64_t where n may reach the width (undefined from 64 on)
Shr64UB(v, n, ub) ==
    IF n < 64 THEN Shr(v, n)
    ELSE IF ub.shift = "wrap" THEN Shr(v, n % 64) ELSE {}

\* (1ull << n) - 1ull, n >= 0: all ones below n; for n >= 64 the shift is
\* undefined: 1 << (n mod 64) under "wrap", 0 under "zero", and 0 - 1 wraps
\* to all ones
Mask64UB(n, ub) ==
    IF n < 64 THEN 0 .. (n - 1)
    ELSE IF ub.shift = "wrap" THEN 0 .. ((n % 64) - 1) ELSE 0 .. 63

\* ------------------------------------------------------------ bit readers
\* variant: the bit index within the byte is not reversed
msb_bit_MutLsbOrder(data, total_bits, p) ==
    IF p < total_bits THEN (data[(p \div 8) + 1] \div Pow2(p % 8)) % 2 ELSE 0

\* bit p of the buffer, most significant bit of each byte first; 0 past the end
msb_bit(data, total_bits, p) ==
    IF p < total_bits THEN (data[(p \div 8) + 1] \div Pow2(7 - (p % 8))) % 2 ELSE 0

\* bit p of the buffer, least significant bit of each byte first; 0 past the end
lsb_bit(data, total_bits, p) ==
    IF p < total_bits THEN (data[(p \div 8) + 1] \div Pow2(p % 8)) % 2 ELSE 0

\* val = (val << 1) | bit on a uint32_t accumulator
msb_step(val, bit) == U32(Shl(val, 1, 64) \cup (IF bit = 1 THEN {0} ELSE {}))

RECURSIVE msb_loop(_, _, _, _, _, _)
msb_loop(data, total_bits, bitpos, nbits, i, val) ==
    IF i >= nbits \/ ~IsWord(val) THEN val
    ELSE msb_loop(data, total_bits, bitpos, nbits, i + 1,
                  msb_step(val, msb_bit(data, total_bits, bitpos + i)))

\* read_bits_msb: nbits bits from bitpos, first bit read most significant;
\* the accumulator and the return type are uint32_t
read_bits_msb(data, total_bits, bitpos, nbits) ==
    msb_loop(data, total_bits, bitpos, nbits, 0, {})

\* static_cast<size_t>(bit << i): bit is promoted to int, so the shift is a
\* 32-bit one: bit 31 is the sign and extends over bits 32..63 in the
\* conversion, and a count of 32 or more is undefined
int_shl_to_size_t(bit, i, ub) ==
    IF bit = 0 THEN {}
    ELSE IF i >= 32 /\ ub.shift = "zero" THEN {}
    ELSE LET k == i % 32 IN IF k = 31 THEN 31 .. 63 ELSE {k}

RECURSIVE lsb_loop(_, _, _, _, _, _, _)
lsb_loop(data, total_bits, bitpos, nbits, i, val, ub) ==
    IF i >= nbits \/ ~IsWord(val) THEN val
    ELSE lsb_loop(data, total_bits, bitpos, nbits, i + 1,
                  val \cup int_shl_to_size_t(lsb_bit(data, total_bits, bitpos + i), i, ub),
                  ub)

\* read_bits_lsb: the i-th bit read goes to result bit i; the accumulator
\* is a size_t, the return type uint32_t
read_bits_lsb(data, total_bits, bitpos, nbits, ub) ==
    U32(lsb_loop(data, total_bits, bitpos, nbits, 0, {}, ub))

\* ------------------------------------------------------ pixel endianness
\* nbytes = (bpp + 7) / 8
NBytes(bpp) == (bpp + 7) \div 8

\* bytes[i] = (pixel_val >> ((nbytes - 1 - i) * 8)) & 0xFF, i in 0..nbytes-1
SplitBytes(pixel_val, nbytes, ub) ==
    [i \in 0 .. (nbytes - 1) |->
        LowBits(Shr64UB(pixel_val, (nbytes - 1 - i) * 8, ub), 8)]

\* out = (out << 8) | bytes[nbytes - 1 - i], i from 0 to nbytes - 1
RECURSIVE JoinReversed(_, _, _, _)
JoinReversed(bytes, nbytes, i, out) ==
    IF i >= nbytes THEN out
    ELSE JoinReversed(bytes, nbytes, i + 1,
                      Shl(out, 8, 64) \cup bytes[nbytes - 1 - i])

\* the mask of the early return: all ones from 64 bits on
BigEndianMask(bpp) == IF bpp >= 64 THEN 0 .. 63 ELSE 0 .. (bpp - 1)

\* adjust_endianness_pixel, for bpp >= 1
adjust_endianness_pixel(pixel_val, bpp, little_endian, ub) ==
    IF ~little_endian \/ bpp <= 8 THEN pixel_val \cap BigEndianMask(bpp)
    ELSE LET nbytes == NBytes(bpp)
             bytes == SplitBytes(pixel_val, nbytes, ub)
             out == JoinReversed(bytes, nbytes, 0, {})
         IN out \cap Mask64UB(bpp, ub)

\* ----------------------------------------------------------------- scaler
\* variant: the expansion truncates instead of rounding
ScaleUpMutNoRound(raw, bits) ==
    LET maxv == Pow2(bits) - 1 IN ((raw * 255) \div maxv) % 256

\* the expansion of a field narrower than 8 bits to 0..255
ScaleUp(raw, bits) ==
    LET maxv == Pow2(bits) - 1 IN ((raw * 255 + (maxv \div 2)) \div maxv) % 256

\* scale_to_8 (raw a number below 2^22, so that raw * 255 stays exact)
scale_to_8(raw, bits) ==
    IF bits = 0 THEN 0
    ELSE IF bits >= 8 THEN
        IF bits = 8 THEN raw % 256
        ELSE (raw \div Pow2(bits - 8)) % 256
    ELSE ScaleUp(raw, bits)

\* ---------------------------------------------------------------- presets
Fld(n, b) == [name |-> n, bits |-> b]

\* build_presets: the fields of the catalog, in its order (index 0 first)
presets ==
    << <<Fld("y", 1)>>,
       <<Fld("y", 4)>>,
       <<Fld("r", 2), Fld("g", 1), Fld("b", 1)>>,
       <<Fld("y", 8)>>,
       <<Fld("r", 3), Fld("g", 3), Fld("b", 2)>>,
       <<Fld("b", 3), Fld("g", 3), Fld("r", 2)>>,
       <<Fld("r", 2), Fld("g", 3), Fld("b", 3)>>,
       <<Fld("a", 2), Fld("r", 2), Fld("g", 2), Fld("b", 2)>>,
       <<Fld("a", 1), Fld("r", 2), Fld("g", 3), Fld("b", 2)>>,
       <<Fld("r", 5), Fld("g", 6), Fld("b", 5)>>,
       <<Fld("a", 1), Fld("r", 5), Fld("g", 5), Fld("b", 5)>>,
       <<Fld("r", 4), Fld("g", 4), Fld("b", 4), Fld("a", 4)>>,
       <<Fld("r", 3), Fld("g", 4), Fld("b", 3)>>,
       <<Fld("b", 3), Fld("g", 4), Fld("r", 3)>>,
       <<Fld("a", 1), Fld("r", 3), Fld("g", 3), Fld("b", 3)>>,
       <<Fld("r", 8), Fld("g", 8), Fld("b", 8)>>,
       <<Fld("b", 8), Fld("g", 8), Fld("r", 8)>>,
       <<Fld("r", 8), Fld("g", 8), Fld("b", 8), Fld("a", 8)>>,
       <<Fld("a", 8), Fld("r", 8), Fld("g", 8), Fld("b", 8)>>,
       <<Fld("a", 8), Fld("b", 8), Fld("g", 8), Fld("r", 8)>>,
       <<Fld("b", 8), Fld("g", 8), Fld("r", 8), Fld("a", 8)>> >>

\* presets[i] of the code (indices from 0)
PresetFields(i) == presets[i + 1]

\* the total of a preset's field widths
RECURSIVE SumBits(_, _)
SumBits(fields, k) ==
    IF k > Len(fields) THEN 0 ELSE fields[k].bits + SumBits(fields, k + 1)

\* ---------------------------------------------------- field decomposition
Min(a, b) == IF a < b THEN a ELSE b
Max(a, b) == IF a > b THEN a ELSE b

\* use = min(bits, cur_shift)
field_use(bits, cur_shift) == Min(bits, cur_shift)

\* rawcomp: the use bits right below the budget position, 0 when none is left
field_raw(pixel_val, cur_shift, use, ub) ==
    IF cur_shift > 0 /\ use > 0
    THEN Shr64UB(pixel_val, cur_shift - use, ub) \cap Mask64UB(use, ub)
    ELSE {}

\* variant: the nominal width of the field is used
field_scale_bits_MutNominal(bits, use) == bits % 256

\* the width handed to scale_to_8 (its parameter is a uint8_t)
field_scale_bits(bits, use) == use % 256

\* the switch on the field's name
assign_channel(c, name, val8) ==
    CASE name = "r" -> [c EXCEPT !.r = val8]
      [] name = "g" -> [c EXCEPT !.g = val8]
      [] name = "b" -> [c EXCEPT !.b = val8]
      [] name = "a" -> [c EXCEPT !.a = val8]
      [] name = "y" -> [c EXCEPT !.r = val8, !.g = val8, !.b = val8]
      [] OTHER -> [c EXCEPT !.r = 0, !.g = 0, !.b = 0]

RECURSIVE fields_loop(_, _, _, _, _, _)
fields_loop(pixel_val, fields, k, cur_shift, c, ub) ==
    IF k > Len(fields) THEN c
    ELSE LET use == field_use(fields[k].bits, cur_shift)
             rawcomp == field_raw(pixel_val, cur_shift, use, ub)
             val8 == scale_to_8(NatOf(rawcomp), field_scale_bits(fields[k].bits, use))
         IN fields_loop(pixel_val, fields, k + 1, cur_shift - use,
                        assign_channel(c, fields[k].name, val8), ub)

\* variant: alpha starts at 0
decode_fields_MutAlphaZero(pixel_val, bpp, fields, ub) ==
    fields_loop(pixel_val, fields, 1, bpp, [r |-> 255, g |-> 255, b |-> 255, a |-> 0], ub)

\* the channels of one pixel word: budget bpp, every channel 255 to begin with
decode_fields(pixel_val, bpp, fields, ub) ==
    fields_loop(pixel_val, fields, 1, bpp, [r |-> 255, g |-> 255, b |-> 255, a |-> 255], ub)

\* --------------------------------------------------------------- renderer
\* variant: a start exactly at the end is let through
start_past_end_MutStrict(start_int, total_bits) == start_int < 0 \/ start_int > total_bits

\* start_bit >= total_bits, start_bit being the size_t made of the int
\* stofs * 8 + bit_align: a negative int converts to a value above every
\* buffer size
start_past_end(start_int, total_bits) == start_int < 0 \/ start_int >= total_bits

\* variant: a partial trailing pixel counts as one
pixels_available_of_MutCeil(total_bits, start_bit, bpp) ==
    IF bpp < 0 THEN 0 ELSE (total_bits - start_bit + bpp - 1) \div bpp

\* (total_bits - start_bit) / bpp in size_t, bpp # 0: a negative bpp
\* converts to a divisor above every buffer size
pixels_available_of(total_bits, start_bit, bpp) ==
    IF bpp < 0 THEN 0 ELSE (total_bits - start_bit) \div bpp

\* variant: the division rounds down
rows_needed_of_MutFloor(actual_pixels, width) == actual_pixels \div width

\* rows_needed = (actual_pixels + width - 1) / width
rows_needed_of(actual_pixels, width) == (actual_pixels + width - 1) \div width

\* the bit cursor after a decoded pixel
next_bitpos(bitpos, bpp) == bitpos + bpp

\* the pixel word of one pixel: the read in the chosen bit order
read_pixel(s, total_bits, bitpos, ub) ==
    IF s.bit_order_msb
    THEN read_bits_msb(s.data, total_bits, bitpos, s.bpp)
    ELSE read_bits_lsb(s.data, total_bits, bitpos, s.bpp, ub)

\* the loop over the raster, as far as it decodes (pass p has made p reads): from the first index at
\* or past pixels_available on, every pass takes the transparent branch and
\* leaves the cursor alone. calls lists the passes that decoded: the pixel
\* index, the cursor of its read, the adjusted word and the channels.
RECURSIVE render_loop(_, _, _, _, _, _, _, _, _)
render_loop(s, fields, total_bits, n, avail, p, bitpos, calls_so_far, ub) ==
    IF p >= n \/ p >= avail \/ Len(calls_so_far) # p THEN calls_so_far
    ELSE LET word == adjust_endianness_pixel(read_pixel(s, total_bits, bitpos, ub),
                                             s.bpp, s.byte_order_le, ub)
             c == decode_fields(word, s.bpp, fields, ub)
         IN render_loop(s, fields, total_bits, n, avail, p + 1,
                        next_bitpos(bitpos, s.bpp),
                        Append(calls_so_far,
                               [p |-> p, bitpos |-> bitpos, nbits |-> s.bpp, word |-> word,
                                rgba |-> <<c.r, c.g, c.b, c.a>>]),
                        ub)

\* variant: the pixels past the data are opaque black
raster_of_MutOpaqueTail(n, decoded) ==
    [i \in 1 .. (n * 4) |->
        LET p == (i - 1) \div 4
        IN IF p < Len(decoded) THEN decoded[p + 1].rgba[((i - 1) % 4) + 1]
           ELSE IF (i - 1) % 4 = 3 THEN 255 ELSE 0]

\* the raster: out_pixels.assign(n * 4, 0), then dst[0..3] of every pixel;
\* a pixel the loop did not decode keeps (or is written) 0, 0, 0, 0
raster_of(n, decoded) ==
    [i \in 1 .. (n * 4) |->
        LET p == (i - 1) \div 4
        IN IF p < Len(decoded) THEN decoded[p + 1].rgba[((i - 1) % 4) + 1] ELSE 0]

EmptyRender == [status |-> "ok", out_pixels |-> <<>>, out_rows_rendered |-> 0, calls |-> <<>>]
Crash == [status |-> "crashed", out_pixels |-> <<>>, out_rows_rendered |-> 0, calls |-> <<>>]

\* render_viewport(s, preset, rows, out_pixels, out_rows_rendered)
render_viewport(s, fields, rows, ub) ==
    LET total_bits == Len(s.data) * 8
        start_bit == s.stofs * 8 + s.bit_align
    IN IF start_past_end(start_bit, total_bits) THEN EmptyRender
       ELSE IF s.bpp = 0
       THEN (IF ub.fault = "trap" THEN Crash ELSE EmptyRender)
       ELSE LET width == Max(1, s.width_px)
                pixels_to_render == rows * width
                pixels_available == pixels_available_of(total_bits, start_bit, s.bpp)
            IN IF pixels_available = 0 THEN EmptyRender
               ELSE IF s.byte_order_le /\ NBytes(s.bpp) > 8 /\ ub.fault = "trap"
               THEN Crash
               ELSE LET actual_pixels == Min(pixels_to_render, pixels_available)
                        rows_needed == rows_needed_of(actual_pixels, width)
                        n == rows_needed * width
                        decoded == render_loop(s, fields, total_bits, n,
                                               pixels_available, 0, start_bit, <<>>, ub)
                    IN [status |-> "ok", out_pixels |-> raster_of(n, decoded),
                        out_rows_rendered |-> rows_needed, calls |-> decoded]

\* ------------------------------------------------------------ viewer state
VARIABLES
    data,            \* ViewerState::data, the loaded file's bytes
    stofs,           \* ViewerState::stofs
    width_px,        \* ViewerState::width_px
    bpp,             \* ViewerState::bpp
    bit_align,       \* ViewerState::bit_align
    preset_idx,      \* ViewerState::preset_idx
    bit_order_msb,   \* ViewerState::bit_order_msb
    byte_order_le,   \* ViewerState::byte_order_le
    phase,           \* "input": controls are being handled; "rendered": the
                     \* frame's render call has returned; "crashed"
    rows,            \* the rows asked of the frame's render call (0: none yet)
    pixels,          \* the frame's RGBA byte vector
    rows_rendered,   \* the frame's rows_rendered
    calls,           \* the pixel reads of the frame's render call
    fn_call,         \* the last direct call of a helper function, with its arguments
    fn_ret           \* and what it returned

vars == <<data, stofs, width_px, bpp, bit_align, preset_idx, bit_order_msb,
          byte_order_le, phase, rows, pixels, rows_rendered, calls, fn_call, fn_ret>>

state_vars == <<data, stofs, width_px, bpp, bit_align, preset_idx, bit_order_msb,
                byte_order_le>>
frame_vars == <<phase, rows, pixels, rows_rendered, calls>>
fn_vars == <<fn_call, fn_ret>>

\* the ViewerState handed to render_viewport
S == [data |-> data, stofs |-> stofs, width_px |-> width_px, bpp |-> bpp,
      bit_align |-> bit_align, bit_order_msb |-> bit_order_msb,
      byte_order_le |-> byte_order_le]

\* ------------------------------------------------------------------ inputs
\* byte i (from 0) of a file of one of three kinds
PatternByte(kind, i) ==
    CASE kind = "ff00" -> (IF i % 2 = 0 THEN 255 ELSE 0)
      [] kind = "b400" -> (IF i % 2 = 0 THEN 180 ELSE 0)
      [] kind = "f81f" -> (IF i % 2 = 0 THEN 248 ELSE 31)

MkFile(n, kind) == [i \in 1 .. n |-> PatternByte(kind, i - 1)]

Files == {MkFile(n, "ff00") : n \in (0 .. MaxLen) \cup {LongLen}}

WidthInputs == 0 .. MaxWidth
StofsInputs == -1 .. MaxStofs
BitAlignInputs == {-1, 0, 3, 7, 8}
BppInputs == {-1, 0, 40, 65}
BppButtons == {1, 4, 8, 16}
PresetChoices == {3, 9}

\* ----------------------------------------------------------------- actions
\* a new pass of the main loop: the frame's locals do not exist yet
NewFrame ==
    /\ phase # "crashed"
    /\ phase' = "input"
    /\ rows' = 0
    /\ pixels' = <<>>
    /\ rows_rendered' = 0
    /\ calls' = <<>>
    /\ UNCHANGED fn_vars

Init ==
    /\ data = <<>>
    /\ stofs = 0
    /\ width_px = 256
    /\ bpp = 8
    /\ bit_align = 0
    /\ preset_idx = 3
    /\ bit_order_msb = TRUE
    /\ byte_order_le = FALSE
    /\ phase = "input"
    /\ rows = 0
    /\ pixels = <<>>
    /\ rows_rendered = 0
    /\ calls = <<>>
    /\ fn_call = [fn |-> "none"]
    /\ fn_ret = {}

\* load_file_into
LoadFile ==
    \E f \in Files :
        /\ NewFrame
        /\ data' = f
        /\ stofs' = 0
        /\ bit_align' = 0
        /\ UNCHANGED <<width_px, bpp, preset_idx, bit_order_msb, byte_order_le>>

\* InputInt("Width (px/row)") and its floor of 1
InputWidth ==
    \E v \in WidthInputs :
        /\ NewFrame
        /\ width_px' = IF v < 1 THEN 1 ELSE v
        /\ UNCHANGED <<data, stofs, bpp, bit_align, preset_idx, bit_order_msb, byte_order_le>>

\* InputInt("Start offset")
InputStofs ==
    \E v \in StofsInputs :
        /\ NewFrame
        /\ stofs' = v
        /\ UNCHANGED <<data, width_px, bpp, bit_align, preset_idx, bit_order_msb, byte_order_le>>

\* InputInt("Bit alignment") and its clamp to 0..7
InputBitAlign ==
    \E v \in BitAlignInputs :
        /\ NewFrame
        /\ bit_align' = IF v < 0 THEN 0 ELSE IF v > 7 THEN 7 ELSE v
        /\ UNCHANGED <<data, stofs, width_px, bpp, preset_idx, bit_order_msb, byte_order_le>>

\* InputInt("Bits per pixel"): no clamp
InputBpp ==
    \E v \in BppInputs :
        /\ NewFrame
        /\ bpp' = v
        /\ UNCHANGED <<data, stofs, width_px, bit_align, preset_idx, bit_order_msb, byte_order_le>>

\* the buttons "1 BPP", "4 BPP", "8 BPP", "16 BPP"
BppButton ==
    \E v \in BppButtons :
        /\ NewFrame
        /\ bpp' = v
        /\ UNCHANGED <<data, stofs, width_px, bit_align, preset_idx, bit_order_msb, byte_order_le>>

\* a click in the preset list: bpp becomes the total of the preset's fields
SelectPreset ==
    \E i \in PresetChoices :
        /\ NewFrame
        /\ preset_idx' = i
        /\ bpp' = LET total == SumBits(PresetFields(i), 1)
                  IN IF total > 0 THEN total ELSE bpp
        /\ UNCHANGED <<data, stofs, width_px, bit_align, bit_order_msb, byte_order_le>>

\* Checkbox("Bit-order MSB")
ToggleBitOrder ==
    /\ NewFrame
    /\ bit_order_msb' = ~bit_order_msb
    /\ UNCHANGED <<data, stofs, width_px, bpp, bit_align, preset_idx, byte_order_le>>

\* Checkbox("Byte-order LE")
ToggleByteOrder ==
    /\ NewFrame
    /\ byte_order_le' = ~byte_order_le
    /\ UNCHANGED <<data, stofs, width_px, bpp, bit_align, preset_idx, bit_order_msb>>

\* Button("Center start (0)")
CenterStart ==
    /\ NewFrame
    /\ stofs' = 0
    /\ bit_align' = 0
    /\ UNCHANGED <<data, width_px, bpp, preset_idx, bit_order_msb, byte_order_le>>

\* the floors and ceilings the controls panel applies every frame, before
\* the render call: width_px >= 1 and 0 <= bit_align <= 7
clamp_width(w) == IF w < 1 THEN 1 ELSE w
clamp_bit_align(a) == IF a < 0 THEN 0 ELSE IF a > 7 THEN 7 ELSE a

\* the rest of a frame: the controls panel, then the render call; rows is
\* the height of the image area (at least 1)
Frame ==
    /\ phase = "input"
    /\ \E r \in 1 .. MaxRows, ub \in UBModes :
        LET s == [S EXCEPT !.width_px = clamp_width(width_px),
                           !.bit_align = clamp_bit_align(bit_align)]
            res == render_viewport(s, PresetFields(preset_idx), r, ub)
        IN /\ width_px' = s.width_px
           /\ bit_align' = s.bit_align
           /\ phase' = IF res.status = "crashed" THEN "crashed" ELSE "rendered"
           /\ rows' = r
           /\ pixels' = res.out_pixels
           /\ rows_rendered' = res.out_rows_rendered
           /\ calls' = res.calls
           /\ UNCHANGED <<data, stofs, bpp, preset_idx, bit_order_msb, byte_order_le, fn_vars>>

Next ==
    \/ LoadFile
    \/ InputWidth
    \/ InputStofs
    \/ InputBitAlign
    \/ InputBpp
    \/ BppButton
    \/ SelectPreset
    \/ ToggleBitOrder
    \/ ToggleByteOrder
    \/ CenterStart
    \/ Frame

Spec == Init /\ [][Next]_vars

\* ------------------------------------------- the helpers called directly
\* Every helper is a pure function; here each is called on its own, on
\* arguments drawn from bounded sets, and the call and its result recorded
\* (one call a run, and for the endianness adjustment a second one on the
\* result of the first).
FnFiles == {MkFile(n, k) : n \in 0 .. MaxLen, k \in {"f81f", "b400"}}

SampleWords ==
    { {}, 0 .. 63, {0}, {63}, {0, 9, 18, 27, 36, 45, 54, 63},
      (8 .. 15) \cup {40}, {k \in 0 .. 63 : k % 3 = 0},
      WordOf(63519), WordOf(180), WordOf(4660) \cup {33, 47, 62} }

FieldBpps == {1, 3, 4, 8, 12, 16, 24, 32, 64}

\* read_bits_msb(data, total_bits, bitpos, nbits)
CallReadBitsMsb ==
    /\ fn_call.fn = "none"
    /\ \E d \in FnFiles, pos \in 0 .. (MaxLen * 8 + 1), n \in 1 .. MaxNBits :
            /\ fn_call' = [fn |-> "read_bits_msb", data |-> d, total_bits |-> Len(d) * 8,
                           bitpos |-> pos, nbits |-> n]
            /\ fn_ret' = read_bits_msb(d, Len(d) * 8, pos, n)
            /\ UNCHANGED <<state_vars, frame_vars>>

\* read_bits_lsb(data, total_bits, bitpos, nbits)
CallReadBitsLsb ==
    /\ fn_call.fn = "none"
    /\ \E d \in FnFiles, pos \in 0 .. (MaxLen * 8 + 1), n \in 1 .. MaxNBits, ub \in UBModes :
            /\ fn_call' = [fn |-> "read_bits_lsb", data |-> d, total_bits |-> Len(d) * 8,
                           bitpos |-> pos, nbits |-> n, ub |-> ub]
            /\ fn_ret' = read_bits_lsb(d, Len(d) * 8, pos, n, ub)
            /\ UNCHANGED <<state_vars, frame_vars>>

\* adjust_endianness_pixel(pixel_val, bpp, little_endian)
CallAdjust ==
    /\ fn_call.fn = "none"
    /\ \E v \in SampleWords, b \in 1 .. 64, le \in BOOLEAN, ub \in UBModes :
            /\ fn_call' = [fn |-> "adjust_endianness_pixel", pixel_val |-> v, bpp |-> b,
                           little_endian |-> le, ub |-> ub, times |-> 1]
            /\ fn_ret' = adjust_endianness_pixel(v, b, le, ub)
            /\ UNCHANGED <<state_vars, frame_vars>>

\* adjust_endianness_pixel applied to what it has just returned, with the
\* same bpp and byte order, by the same build
CallAdjustAgain ==
    /\ fn_call.fn = "adjust_endianness_pixel"
    /\ fn_call.times = 1
    /\ fn_call' = [fn_call EXCEPT !.times = 2]
    /\ fn_ret' = adjust_endianness_pixel(fn_ret, fn_call.bpp, fn_call.little_endian,
                                         fn_call.ub)
    /\ UNCHANGED <<state_vars, frame_vars>>

\* scale_to_8(raw, bits), raw a bits-bit value
CallScale ==
    /\ fn_call.fn = "none"
    /\ \E w \in 0 .. MaxScaleBits :
            \E raw \in 0 .. (Pow2(w) - 1) :
                /\ fn_call' = [fn |-> "scale_to_8", raw |-> raw, bits |-> w]
                /\ fn_ret' = scale_to_8(raw, w)
                /\ UNCHANGED <<state_vars, frame_vars>>

\* the field loop of render_viewport on one pixel word of bpp bits
CallDecodeFields ==
    /\ fn_call.fn = "none"
    /\ \E v \in SampleWords, b \in FieldBpps, i \in 0 .. (Len(presets) - 1), ub \in UBModes :
            /\ fn_call' = [fn |-> "decode_fields", pixel_val |-> LowBits(v, b), bpp |-> b,
                           preset |-> i, ub |-> ub]
            /\ fn_ret' = decode_fields(LowBits(v, b), b, PresetFields(i), ub)
            /\ UNCHANGED <<state_vars, frame_vars>>

NextFn ==
    \/ CallReadBitsMsb
    \/ CallReadBitsLsb
    \/ CallAdjust
    \/ CallAdjustAgain
    \/ CallScale
    \/ CallDecodeFields

SpecFn == Init /\ [][NextFn]_vars

\* ------------------------------------------------------------------ claims
\* The quantities the specification's statements are about, computed from
\* the viewer state of a frame whose render call has been made.
ReqTotalBits == Len(data) * 8
ReqStartBit == stofs * 8 + bit_align
ReqWidth == IF width_px < 1 THEN 1 ELSE width_px
ReqPixelsAvailable == (ReqTotalBits - ReqStartBit) \div bpp
CeilDiv(a, b) == IF a % b = 0 THEN a \div b ELSE (a \div b) + 1
RenderCalled == phase # "input"
\* a configuration of the data model: offset >= 0, 1 <= bits per pixel <= 64
ValidConfig == stofs >= 0 /\ bpp \in 1 .. 64
\* pixel p (from 0) of the raster
RasterPixel(p) == <<pixels[4 * p + 1], pixels[4 * p + 2], pixels[4 * p + 3], pixels[4 * p + 4]>>
RasterCount == Len(pixels) \div 4
TailTransparent ==
    \A p \in 0 .. (RasterCount - 1) : p >= ReqPixelsAvailable => RasterPixel(p) = <<0, 0, 0, 0>>

\* C1: a render call whose start_bit = byte_offset*8 + bit_align is at or
\* past total_bits returns rows_rendered = 0 and an empty raster, decodes no
\* pixel and signals no error, whatever the buffer, preset, bits per pixel
\* and row count.
C1_EmptyPastEnd ==
    (RenderCalled /\ ReqStartBit >= ReqTotalBits)
        => /\ phase = "rendered"
           /\ rows_rendered = 0
           /\ pixels = <<>>
           /\ calls = <<>>

\* a render call made on a loaded file with the window start past its end
C1_Witness ==
    /\ phase = "rendered"
    /\ Len(data) > 0
    /\ ReqStartBit >= ReqTotalBits
    /\ rows >= 1

\* C2 as stated: when requested_rows * width exceeds pixels_available > 0,
\* rows_rendered is strictly less than requested_rows and every raster pixel
\* at an index >= pixels_available is (0,0,0,0).
C2_Original ==
    (RenderCalled /\ ValidConfig /\ ReqStartBit < ReqTotalBits
        /\ ReqPixelsAvailable > 0 /\ rows * ReqWidth > ReqPixelsAvailable)
        => /\ phase = "rendered"
           /\ rows_rendered < rows
           /\ TailTransparent

\* C2 as amended: when requested_rows * width exceeds pixels_available > 0,
\* rows_rendered is at most requested_rows, and strictly less exactly when
\* the available pixels fit in requested_rows - 1 rows; every raster pixel
\* at an index >= pixels_available is (0,0,0,0).
C2_Amended ==
    (RenderCalled /\ ValidConfig /\ ReqStartBit < ReqTotalBits
        /\ ReqPixelsAvailable > 0 /\ rows * ReqWidth > ReqPixelsAvailable)
        => /\ phase = "rendered"
           /\ rows_rendered <= rows
           /\ (rows_rendered < rows <=> ReqPixelsAvailable <= (rows - 1) * ReqWidth)
           /\ TailTransparent

\* a render call cut short by the end of the data inside its last requested row
C2_Witness ==
    /\ phase = "rendered"
    /\ ValidConfig
    /\ ReqStartBit < ReqTotalBits
    /\ ReqPixelsAvailable > 0
    /\ rows * ReqWidth > ReqPixelsAvailable
    /\ rows_rendered = rows
    /\ RasterCount > ReqPixelsAvailable

\* C3: a render call with start_bit < total_bits and pixels_available > 0
\* uses width = max(1, row_width_px), returns rows_rendered =
\* ceil(min(requested_rows * width, pixels_available) / width) and a raster
\* of exactly rows_rendered * width * 4 bytes, and rows_rendered never
\* exceeds requested_rows.
C3_RowsAndRasterSize ==
    (RenderCalled /\ ValidConfig /\ ReqStartBit < ReqTotalBits /\ ReqPixelsAvailable > 0)
        => /\ phase = "rendered"
           /\ rows_rendered = CeilDiv(Min(rows * ReqWidth, ReqPixelsAvailable), ReqWidth)
           /\ Len(pixels) = rows_rendered * ReqWidth * 4
           /\ rows_rendered <= rows

\* a render call that returned a last row only partly covered by the data
C3_Witness ==
    /\ phase = "rendered"
    /\ ValidConfig
    /\ ReqStartBit < ReqTotalBits
    /\ ReqPixelsAvailable > 0
    /\ rows_rendered >= 2
    /\ ReqPixelsAvailable % ReqWidth # 0
    /\ ReqPixelsAvailable < rows * ReqWidth

\* C8 as stated: a render call whose bits_per_pixel lies outside 1..64 is
\* rejected as a configuration error, reported to the caller at call time,
\* and decodes no pixel. (render_viewport has no error result: a call either
\* returns its two outputs or the process stops.)
C8_BadBppRejected ==
    (RenderCalled /\ bpp \notin 1 .. 64) => (phase = "rejected" /\ calls = <<>>)

\* the word the specification expects of the bpp bits at pos: the bits in
\* the reading order, then whole bytes reversed for a little-endian pixel
\* wider than 8 bits
ExpectedRaw(pos) ==
    IF bit_order_msb
    THEN {bpp - 1 - i : i \in {j \in 0 .. (bpp - 1) : msb_bit(data, ReqTotalBits, pos + j) = 1}}
    ELSE {i \in 0 .. (bpp - 1) : lsb_bit(data, ReqTotalBits, pos + i) = 1}
ByteSwapped(v) ==
    LET nb == CeilDiv(bpp, 8)
    IN {(nb - 1 - (i \div 8)) * 8 + (i % 8) : i \in v} \cap (0 .. (bpp - 1))
ExpectedWord(pos) ==
    IF byte_order_le /\ bpp > 8 THEN ByteSwapped(ExpectedRaw(pos)) ELSE ExpectedRaw(pos)

\* C9: in every render call the pixel at linear index p < pixels_available
\* is decoded from the bpp bits at start_bit + p*bpp .. start_bit + (p+1)*bpp - 1,
\* a range that lies inside the buffer: every raster pixel below
\* pixels_available is read, read p is made at that cursor for bpp bits and
\* ends at or before total_bits (for pixels of up to 32 bits the word read
\* is the word of exactly those bits).
C9_CursorInsideBuffer ==
    (RenderCalled /\ ValidConfig /\ ReqStartBit < ReqTotalBits)
        => /\ phase = "rendered"
           /\ Len(calls) = Min(ReqPixelsAvailable, RasterCount)
           /\ \A k \in 1 .. Len(calls) :
                /\ calls[k].p = k - 1
                /\ calls[k].nbits = bpp
                /\ calls[k].bitpos = ReqStartBit + (k - 1) * bpp
                /\ calls[k].bitpos + bpp <= ReqTotalBits
                /\ (bpp <= 32 => calls[k].word = ExpectedWord(calls[k].bitpos))

\* a render call at an unaligned start that decoded every available pixel
\* and left trailing bits too few for one more
C9_Witness ==
    /\ phase = "rendered"
    /\ ValidConfig
    /\ bit_align # 0
    /\ Len(calls) >= 2
    /\ Len(calls) = ReqPixelsAvailable
    /\ (ReqTotalBits - ReqStartBit) % bpp # 0

\* ------------------------------------------------ claims on the helpers
IsRead == fn_call.fn \in {"read_bits_msb", "read_bits_lsb"}
\* the byte-mirrored position of p: same byte, bit 7 - (p mod 8)
Mirror(p) == (p - (p % 8)) + (7 - (p % 8))
\* the other reader on the arguments of the recorded call, from position q
OtherReaderAt(q) ==
    IF fn_call.fn = "read_bits_msb"
    THEN read_bits_lsb(fn_call.data, fn_call.total_bits, q, fn_call.nbits,
                       [shift |-> "wrap", fault |-> "trap"])
    ELSE read_bits_msb(fn_call.data, fn_call.total_bits, q, fn_call.nbits)

\* C4 as stated: a single-bit read at p returns the same value under
\* MSB_FIRST and under LSB_FIRST, for every buffer and position.
C4_Original ==
    (IsRead /\ fn_call.nbits = 1) => fn_ret = OtherReaderAt(fn_call.bitpos)

\* C4 as amended: a single-bit read at p under one bit order returns what a
\* single-bit read under the other order returns at the mirrored position
\* of the same byte, 8*floor(p/8) + 7 - (p mod 8); at a position p >=
\* total_bits both orders return 0.
C4_Amended ==
    (IsRead /\ fn_call.nbits = 1)
        => IF fn_call.bitpos < fn_call.total_bits
           THEN fn_ret = OtherReaderAt(Mirror(fn_call.bitpos))
           ELSE fn_ret = {} /\ OtherReaderAt(fn_call.bitpos) = {}

\* a single-bit MSB-first read of a 1 where the LSB-first read gives 0
C4_Witness ==
    /\ fn_call.fn = "read_bits_msb"
    /\ fn_call.nbits = 1
    /\ fn_call.bitpos < fn_call.total_bits
    /\ fn_ret = {0}
    /\ OtherReaderAt(fn_call.bitpos) = {}

\* C5 as stated: for nbits in 1..64 the read returns the full nbits-wide
\* value: under MSB_FIRST the i-th bit read is result bit nbits-1-i, under
\* LSB_FIRST it is result bit i, and a position at or past total_bits gives
\* a 0 bit without shortening the read.
C5_FullWidthRead ==
    /\ fn_call.fn = "read_bits_msb"
        => fn_ret = {fn_call.nbits - 1 - i :
                        i \in {j \in 0 .. (fn_call.nbits - 1) :
                                 msb_bit(fn_call.data, fn_call.total_bits, fn_call.bitpos + j) = 1}}
    /\ fn_call.fn = "read_bits_lsb"
        => fn_ret = {i \in 0 .. (fn_call.nbits - 1) :
                        lsb_bit(fn_call.data, fn_call.total_bits, fn_call.bitpos + i) = 1}

IsAdjust == fn_call.fn = "adjust_endianness_pixel"

\* C6 as stated: for bpp a multiple of 8 in 8..64 the little-endian
\* adjustment applied twice returns v masked to bpp bits, and for bpp in
\* 1..64 the big-endian adjustment returns v masked to bpp bits.
C6_AdjustTwice ==
    /\ (IsAdjust /\ fn_call.times = 2 /\ fn_call.little_endian /\ fn_call.bpp % 8 = 0)
        => fn_ret = LowBits(fn_call.pixel_val, fn_call.bpp)
    /\ (IsAdjust /\ fn_call.times = 1 /\ ~fn_call.little_endian)
        => fn_ret = LowBits(fn_call.pixel_val, fn_call.bpp)

\* C7: scale_to_8 is monotonic non-decreasing in raw for a fixed width
\* (raw a width-bit value); for w in 1..8 it maps 0 to 0 and 2^w - 1 to 255;
\* for 0 < w < 8 it is floor((raw*255 + maxv/2) / maxv), maxv = 2^w - 1.
C7_ScaleMonotoneExact ==
    fn_call.fn = "scale_to_8"
        => LET raw == fn_call.raw
               w == fn_call.bits
               maxv == Pow2(w) - 1
           IN /\ \A lower \in 0 .. raw : scale_to_8(lower, w) <= fn_ret
              /\ fn_ret \in 0 .. 255
              /\ (w \in 1 .. 8 /\ raw = 0) => fn_ret = 0
              /\ (w \in 1 .. 8 /\ raw = maxv) => fn_ret = 255
              /\ (0 < w /\ w < 8) => fn_ret = (raw * 255 + (maxv \div 2)) \div maxv

\* a narrow field whose expansion is rounded up: 3 of 4 bits -> 51
C7_Witness ==
    /\ fn_call.fn = "scale_to_8"
    /\ fn_call.bits = 4
    /\ fn_call.raw = 3
    /\ fn_ret = 51

\* the decomposition of the specification, field k of the preset on its own:
\* the budget left when field k is reached, the bits it takes, its raw value
RECURSIVE WidthsBefore(_, _)
WidthsBefore(fields, k) == IF k <= 1 THEN 0 ELSE fields[k - 1].bits + WidthsBefore(fields, k - 1)
BudgetAt(fields, k, b) == Max(0, b - WidthsBefore(fields, k))
UseAt(fields, k, b) == Min(fields[k].bits, BudgetAt(fields, k, b))
RawAt(word, fields, k, b) ==
    LET use == UseAt(fields, k, b)
        low == BudgetAt(fields, k, b) - use
    IN NatOf({i \in 0 .. (use - 1) : (low + i) \in word})
ByteAt(word, fields, k, b) == scale_to_8(RawAt(word, fields, k, b), UseAt(fields, k, b))
\* the byte of channel ch: that of the last field writing it, 255 when none does
ChannelOf(word, fields, b, ch) ==
    LET writers == {k \in 1 .. Len(fields) :
                        fields[k].name = ch \/ (fields[k].name = "y" /\ ch # "a")}
    IN IF writers = {} THEN 255
       ELSE ByteAt(word, fields, CHOOSE k \in writers : \A j \in writers : j <= k, b)

\* C10: the fields of a preset are taken from a pixel word of bpp bits most
\* significant first with a budget starting at bpp: each field takes use =
\* min(width, remaining budget) bits, its raw value is (word >> (budget -
\* use)) & (2^use - 1) (0 when use = 0) and its channel byte is
\* scale_to_8(raw, use); R5-G6-B5 on 0b1111100000011111 gives R=255, G=0,
\* B=255.
C10_FieldDecomposition ==
    fn_call.fn = "decode_fields"
        => LET f == PresetFields(fn_call.preset)
               w == fn_call.pixel_val
               b == fn_call.bpp
           IN /\ fn_ret = [r |-> ChannelOf(w, f, b, "r"), g |-> ChannelOf(w, f, b, "g"),
                           b |-> ChannelOf(w, f, b, "b"), a |-> ChannelOf(w, f, b, "a")]
              /\ (fn_call.preset = 9 /\ b = 16 /\ w = WordOf(63519))
                    => (fn_ret.r = 255 /\ fn_ret.g = 0 /\ fn_ret.b = 255)

\* R5-G6-B5 on an 8-bit word: green is cut to 3 bits, blue to none
C10_Witness ==
    /\ fn_call.fn = "decode_fields"
    /\ fn_call.preset = 9
    /\ fn_call.bpp = 8
    /\ fn_call.pixel_val = WordOf(180)
    /\ fn_ret = [r |-> 181, g |-> 146, b |-> 0, a |-> 255]

\* ------------------------------------------------- the catalog on screen
\* The viewer with a file loaded and the presets of the whole catalog
\* selected in turn, each with the bits per pixel it sets.
SelectAnyPreset ==
    \E i \in 0 .. (Len(presets) - 1) :
        /\ NewFrame
        /\ preset_idx' = i
        /\ bpp' = LET total == SumBits(PresetFields(i), 1)
                  IN IF total > 0 THEN total ELSE bpp
        /\ UNCHANGED <<data, stofs, width_px, bit_align, bit_order_msb, byte_order_le>>

NextCatalog ==
    \/ LoadFile
    \/ InputWidth
    \/ SelectAnyPreset
    \/ ToggleBitOrder
    \/ ToggleByteOrder
    \/ Frame

SpecCatalog == Init /\ [][NextCatalog]_vars

\* the channel names of the selected preset's fields
FieldNames == {PresetFields(preset_idx)[k].name : k \in 1 .. Len(PresetFields(preset_idx))}
\* the channels the preset leaves alone: named by no field, and for red,
\* green and blue not covered by a gray field either
Untouched == {ch \in {"r", "g", "b", "a"} :
                 ch \notin FieldNames /\ (ch = "a" \/ "y" \notin FieldNames)}
ChannelIndex(ch) == CASE ch = "r" -> 1 [] ch = "g" -> 2 [] ch = "b" -> 3 [] ch = "a" -> 4
\* the gray scenario: FF 00 FF 00 as 8-bit gray, two rows of two pixels
GrayScenario ==
    /\ phase = "rendered"
    /\ data = <<255, 0, 255, 0>>
    /\ bpp = 8 /\ preset_idx = 3
    /\ bit_order_msb /\ ~byte_order_le
    /\ stofs = 0 /\ bit_align = 0
    /\ width_px = 2 /\ rows = 2

\* C11: in every decoded pixel (p < pixels_available) a channel of red,
\* green, blue, alpha that no field of the preset names is written as 255;
\* every preset of the catalog without an alpha field gives alpha = 255 in
\* every decoded pixel, and a gray field writes one byte to red, green and
\* blue; FF 00 FF 00 as 8-bit gray, width 2, 2 rows, is white, black, white,
\* black, all opaque.
C11_DefaultChannels ==
    /\ phase = "rendered"
        => \A k \in 1 .. Len(calls) :
              LET px == RasterPixel(calls[k].p)
              IN /\ calls[k].p < ReqPixelsAvailable
                 /\ px = calls[k].rgba
                 /\ \A ch \in Untouched : px[ChannelIndex(ch)] = 255
                 /\ "a" \notin FieldNames => px[4] = 255
                 /\ FieldNames = {"y"} => (px[1] = px[2] /\ px[2] = px[3])
    /\ GrayScenario
        => /\ rows_rendered = 2
           /\ pixels = <<255, 255, 255, 255, 0, 0, 0, 255,
                         255, 255, 255, 255, 0, 0, 0, 255>>

\* the gray scenario rendered: the black pixels are opaque, alpha being
\* named by no field of the 8-bit gray preset
C11_Witness ==
    /\ GrayScenario
    /\ Len(calls) = 4
    /\ RasterPixel(1) = <<0, 0, 0, 255>>

\* ------------------------------------------------------ the keyboard
\* The key-down events of the event loop, taken when the panel does not hold
\* the keyboard. They come before the controls panel and the render call
\* of the same pass of the main loop.

\* max<uint8_t>(a, b) and min<uint8_t>(a, b): both arguments become bytes
max_uint8(a, b) == Max(a % 256, b % 256)
min_uint8(a, b) == Min(a % 256, b % 256)

\* the int quotient and remainder of C++, rounding toward zero
c_div(a, b) == IF a >= 0 THEN a \div b ELSE -((-a) \div b)
c_mod(a, b) == a - b * c_div(a, b)

\* static_cast<size_t>(stofs + width_px * 16) >= data.size() - 16, both
\* sides in size_t: a negative left side and a size under 16 wrap around
nav_at_end(s, w, size) ==
    LET lhs == s + w * 16
    IN IF (lhs < 0) = (size < 16) THEN lhs >= size - 16 ELSE lhs < 0

\* page_bits of PageUp and PageDown for a window win_h high
page_bits_of(w, b, win_h) == c_div(w * Max(1, win_h) * b * 2, 3)

KeyFiles == {MkFile(n, "ff00") : n \in {0, 1, MaxLen, NavLen}}
WinHeights == 0 .. MaxRows

\* the keys that move the start offset; offsets past MaxKeyStofs are not followed
shift_up(s, w) == IF s > w THEN s - w ELSE 0
shift_down(s, w, size) == IF nav_at_end(s, w, size) THEN s ELSE s + w
shift_left(s) == IF s > 0 THEN s - 1 ELSE 0
shift_right(s, w, size) == IF nav_at_end(s, w, size) THEN s ELSE s + 1
key_up(s, w) == IF s > w * 16 THEN s - w * 16 ELSE 0
key_down(s, w, size) == IF nav_at_end(s, w, size) THEN s ELSE s + w * 16

KeyShiftUp ==
    /\ NewFrame
    /\ stofs' = shift_up(stofs, width_px)
    /\ UNCHANGED <<data, width_px, bpp, bit_align, preset_idx, bit_order_msb, byte_order_le>>

KeyShiftDown ==
    /\ shift_down(stofs, width_px, Len(data)) <= MaxKeyStofs
    /\ NewFrame
    /\ stofs' = shift_down(stofs, width_px, Len(data))
    /\ UNCHANGED <<data, width_px, bpp, bit_align, preset_idx, bit_order_msb, byte_order_le>>

KeyShiftLeft ==
    /\ NewFrame
    /\ stofs' = shift_left(stofs)
    /\ UNCHANGED <<data, width_px, bpp, bit_align, preset_idx, bit_order_msb, byte_order_le>>

KeyShiftRight ==
    /\ shift_right(stofs, width_px, Len(data)) <= MaxKeyStofs
    /\ NewFrame
    /\ stofs' = shift_right(stofs, width_px, Len(data))
    /\ UNCHANGED <<data, width_px, bpp, bit_align, preset_idx, bit_order_msb, byte_order_le>>

KeyUp ==
    /\ NewFrame
    /\ stofs' = key_up(stofs, width_px)
    /\ UNCHANGED <<data, width_px, bpp, bit_align, preset_idx, bit_order_msb, byte_order_le>>

KeyDown ==
    /\ key_down(stofs, width_px, Len(data)) <= MaxKeyStofs
    /\ NewFrame
    /\ stofs' = key_down(stofs, width_px, Len(data))
    /\ UNCHANGED <<data, width_px, bpp, bit_align, preset_idx, bit_order_msb, byte_order_le>>

\* wrapped alignments more than MaxAlignWrap below 256 are not followed
KeyAltLeft ==
    /\ max_uint8(0, bit_align - 1) \notin 8 .. (255 - MaxAlignWrap)
    /\ NewFrame
    /\ bit_align' = max_uint8(0, bit_align - 1)
    /\ UNCHANGED <<data, stofs, width_px, bpp, preset_idx, bit_order_msb, byte_order_le>>

KeyAltRight ==
    /\ NewFrame
    /\ bit_align' = min_uint8(7, bit_align + 1)
    /\ UNCHANGED <<data, stofs, width_px, bpp, preset_idx, bit_order_msb, byte_order_le>>

KeyPageUp ==
    \E win_h \in WinHeights :
        LET start_bit == stofs * 8 + bit_align
            below == start_bit - page_bits_of(width_px, bpp, win_h)
            nstart == IF below < 0 THEN 0 ELSE below
        IN /\ c_div(nstart, 8) <= MaxKeyStofs
           /\ NewFrame
           /\ stofs' = c_div(nstart, 8)
           /\ bit_align' = c_mod(nstart, 8)
           /\ UNCHANGED <<data, width_px, bpp, preset_idx, bit_order_msb, byte_order_le>>

KeyPageDown ==
    \E win_h \in WinHeights :
        LET start_bit == stofs * 8 + bit_align
            total_bits == Len(data) * 8
            above == start_bit + page_bits_of(width_px, bpp, win_h)
            nstart == IF above > total_bits - bpp THEN Max(0, total_bits - bpp) ELSE above
        IN /\ c_div(nstart, 8) <= MaxKeyStofs
           /\ NewFrame
           /\ stofs' = c_div(nstart, 8)
           /\ bit_align' = c_mod(nstart, 8) % 256
           /\ UNCHANGED <<data, width_px, bpp, preset_idx, bit_order_msb, byte_order_le>>

\* a file dropped on the window, loaded at the next pass
DropFile ==
    \E f \in KeyFiles :
        /\ NewFrame
        /\ data' = f
        /\ stofs' = 0
        /\ bit_align' = 0
        /\ UNCHANGED <<width_px, bpp, preset_idx, bit_order_msb, byte_order_le>>

NextKeys ==
    \/ DropFile
    \/ InputWidth
    \/ KeyShiftUp
    \/ KeyShiftDown
    \/ KeyShiftLeft
    \/ KeyShiftRight
    \/ KeyUp
    \/ KeyDown
    \/ KeyAltLeft
    \/ KeyAltRight
    \/ KeyPageUp
    \/ KeyPageDown
    \/ Frame

SpecKeys == Init /\ [][NextKeys]_vars

\* C12: from bit_align = 0, Alt+Left and Alt+Right keep bit_align in [0,7]
\* and move it by at most one step a key: Alt+Left at 0 leaves it at 0,
\* Alt+Right at 7 leaves it at 7, so every render call sees the saturated
\* value.
C12_BitAlignSaturates ==
    [][/\ KeyAltLeft => bit_align' = Max(0, bit_align - 1)
       /\ KeyAltRight => bit_align' = Min(7, bit_align + 1)
       /\ bit_align' \in 0 .. 7]_vars

\* C13: keyboard navigation (Up, Down, Shift+Up/Down/Left/Right, PageUp,
\* PageDown) on a loaded buffer, from start offset 0, keeps the start offset
\* non-negative and strictly below the buffer length (0 for an empty buffer).
C13_StofsInsideBuffer ==
    /\ stofs >= 0
    /\ stofs < Max(1, Len(data))

====
